---- MODULE Spec2Model ----
(***************************************************************************)
(* RuntimeLoader (js/src/runtime-loader/RuntimeLoader.ts): the singleton   *)
(* that loads the Rive WASM runtime once, queues the callbacks registered  *)
(* while it loads, and falls back from unpkg to jsdelivr.                  *)
(*                                                                         *)
(* The loader's static fields are the first four variables.  The others    *)
(* are its environment: the imported package data, the promises returned   *)
(* by rc.default, the promises returned by awaitInstance, the console, and *)
(* the record of which callbacks ran.  JavaScript is single-threaded, so   *)
(* every public method and every promise handler is one atomic action;     *)
(* what a user callback does when it runs is fixed by its kind.            *)
(***************************************************************************)
EXTENDS Integers, Sequences, FiniteSets, TLC

VARIABLES
    runtime,        \* RuntimeLoader.runtime: 0 while undefined, else the handle
    isLoading,      \* RuntimeLoader.isLoading
    callBackQueue,  \* RuntimeLoader.callBackQueue
    wasmURL,        \* RuntimeLoader.wasmURL
    packageData,    \* the imported package.json: [name, version]
    attempts,       \* one record per rc.default(...) call, in call order
    promises,       \* the promises awaitInstance returned, by callback id
    invoked,        \* every callback invocation so far, in order
    console,        \* the console.warn / console.error calls so far
    nextId,         \* id of the next callback a caller creates
    nSets,          \* number of setWasmUrl calls callers have made
    presetUrl       \* argument of the latest setWasmUrl call made before any load

vars == <<runtime, isLoading, callBackQueue, wasmURL, packageData, attempts,
          promises, invoked, console, nextId, nSets, presetUrl>>

-----------------------------------------------------------------------------
(* Bounds of the model. *)

\* getInstance / awaitInstance callbacks created by callers in one run
MaxCalls == 2
\* rc.default invocations in one run
MaxAttempts == 3
\* setWasmUrl calls made by callers in one run
MaxSets == 1

-----------------------------------------------------------------------------
(* Strings.  A URL is a sequence of segments (the literal pieces of the     *)
(* template strings and the two package fields); Spell gives the characters *)
(* of a segment, and case conversion and the comparison of the catch        *)
(* handler work on the characters.                                          *)

NoUrl == <<>>

Spell(seg) ==
    CASE seg = "https://unpkg.com/" ->
           <<"h","t","t","p","s",":","/","/","u","n","p","k","g",".","c","o","m","/">>
      [] seg = "https://cdn.jsdelivr.net/npm/" ->
           <<"h","t","t","p","s",":","/","/","c","d","n",".","j","s","d","e","l","i",
             "v","r",".","n","e","t","/","n","p","m","/">>
      [] seg = "HTTPS://CDN.JSDELIVR.NET/npm/" ->
           <<"H","T","T","P","S",":","/","/","C","D","N",".","J","S","D","E","L","I",
             "V","R",".","N","E","T","/","n","p","m","/">>
      [] seg = "/rive.wasm" -> <<"/","r","i","v","e",".","w","a","s","m">>
      [] seg = "/rive_fallback.wasm" ->
           <<"/","r","i","v","e","_","f","a","l","l","b","a","c","k",".","w","a","s","m">>
      [] seg = "@" -> <<"@">>
      [] seg = "@rive-app/canvas" ->
           <<"@","r","i","v","e","-","a","p","p","/","c","a","n","v","a","s">>
      [] seg = "2.7.0" -> <<"2",".","7",".","0">>
      [] seg = "2.7.0-RC1" -> <<"2",".","7",".","0","-","R","C","1">>
      [] seg = "https://example.com/custom.wasm" ->
           <<"h","t","t","p","s",":","/","/","e","x","a","m","p","l","e",".","c","o",
             "m","/","c","u","s","t","o","m",".","w","a","s","m">>

RECURSIVE Chars(_)
Chars(url) ==
    IF url = <<>> THEN <<>> ELSE Spell(Head(url)) \o Chars(Tail(url))

LowerChar(c) ==
    CASE c = "A" -> "a" [] c = "B" -> "b" [] c = "C" -> "c" [] c = "D" -> "d"
      [] c = "E" -> "e" [] c = "F" -> "f" [] c = "G" -> "g" [] c = "H" -> "h"
      [] c = "I" -> "i" [] c = "J" -> "j" [] c = "K" -> "k" [] c = "L" -> "l"
      [] c = "M" -> "m" [] c = "N" -> "n" [] c = "O" -> "o" [] c = "P" -> "p"
      [] c = "Q" -> "q" [] c = "R" -> "r" [] c = "S" -> "s" [] c = "T" -> "t"
      [] c = "U" -> "u" [] c = "V" -> "v" [] c = "W" -> "w" [] c = "X" -> "x"
      [] c = "Y" -> "y" [] c = "Z" -> "z" [] OTHER -> c

\* String.prototype.toLowerCase, on the characters
toLowerCase(chars) == [i \in DOMAIN chars |-> LowerChar(chars[i])]

\* the package.json the module imports; the version may carry a
\* pre-release tag, which semver lets hold upper-case letters
PackageDatas ==
    { [name |-> "@rive-app/canvas", version |-> "2.7.0"],
      [name |-> "@rive-app/canvas", version |-> "2.7.0-RC1"] }

\* `https://unpkg.com/${packageData.name}@${packageData.version}/rive.wasm`
primaryUrl(pd) == <<"https://unpkg.com/", pd.name, "@", pd.version, "/rive.wasm">>

\* `https://cdn.jsdelivr.net/npm/${packageData.name}@${packageData.version}/rive_fallback.wasm`
backupJsdelivrUrl(pd) ==
    <<"https://cdn.jsdelivr.net/npm/", pd.name, "@", pd.version, "/rive_fallback.wasm">>

\* the fallback URL as a caller may write it, with the host in capitals
shoutedBackupUrl(pd) ==
    <<"HTTPS://CDN.JSDELIVR.NET/npm/", pd.name, "@", pd.version, "/rive_fallback.wasm">>

customUrl == <<"https://example.com/custom.wasm">>

\* the URLs callers pass to setWasmUrl
CallerUrls(pd) == {customUrl, shoutedBackupUrl(pd)}

-----------------------------------------------------------------------------
(* The loader as a record, so that a method called from inside a callback   *)
(* is the same operator as the method called by a caller.  threw says an    *)
(* exception is propagating; running is the id of the callback now          *)
(* executing (0 when none is).                                              *)

Cur ==
    [runtime |-> runtime, isLoading |-> isLoading, callBackQueue |-> callBackQueue,
     wasmURL |-> wasmURL, attempts |-> attempts, promises |-> promises,
     invoked |-> invoked, console |-> console, threw |-> FALSE, running |-> 0]

Commit(m) ==
    /\ runtime' = m.runtime
    /\ isLoading' = m.isLoading
    /\ callBackQueue' = m.callBackQueue
    /\ wasmURL' = m.wasmURL
    /\ attempts' = m.attempts
    /\ promises' = m.promises
    /\ invoked' = m.invoked
    /\ console' = m.console

\* what the user callbacks of the model do when they run
CallerKinds == {"plain", "throws", "reenter"}

\* the callback that callback id registers when it is a "reenter" callback
nestedOf(id) == [id |-> -id, kind |-> "plain"]

\* resolve called without the runtime: (rive) => resolve()
resolve_dropsValue(p, value) ==
    IF p.state = "pending" THEN [state |-> "fulfilled", value |-> 0] ELSE p

\* a promise's resolve function: the first settlement wins
resolve(p, value) ==
    IF p.state = "pending" THEN [state |-> "fulfilled", value |-> value] ELSE p

\* what new Promise(executor) does when the executor throws
rejectPromise(p) ==
    IF p.state = "pending" THEN [state |-> "rejected", value |-> 0] ELSE p

\* a setWasmUrl that also clears isLoading, so that the next call reloads
setWasmUrl_rearms(m, url) == [m EXCEPT !.wasmURL = url, !.isLoading = FALSE]

\* setWasmUrl(url)
setWasmUrl(m, url) == [m EXCEPT !.wasmURL = url]

\* a locateFile that answers with the default URL whatever wasmURL holds
locateFile_default(m) == primaryUrl(packageData)

\* the locateFile closure handed to rc.default
locateFile(m) == m.wasmURL

\* loadRuntime(): the call rc.default({locateFile}); its .then and .catch
\* handlers are thenHandler and catchHandler.  started records the value of
\* wasmURL at the call, touched whether a caller changed wasmURL between the
\* call and the module's use of locateFile, queued the ids in callBackQueue
\* when the .then handler began, decision what the .catch handler chose.
loadRuntime(m) ==
    [m EXCEPT !.attempts = Append(@, [status |-> "pending", started |-> m.wasmURL,
                                      located |-> NoUrl, touched |-> FALSE,
                                      queued |-> <<>>, decision |-> "none"])]

RECURSIVE getInstance(_, _)
RECURSIVE callback(_, _, _, _)

\* callback(rive): the invocation is recorded, then the callback does what
\* its kind says
callback(m, cb, rive, by) ==
    LET m1 == [m EXCEPT !.invoked = Append(@, [cb |-> cb.id, rive |-> rive,
                                                by |-> by, inside |-> m.running])]
    IN  CASE cb.kind = "plain" -> m1
          [] cb.kind = "throws" -> [m1 EXCEPT !.threw = TRUE]
          [] cb.kind = "resolve" ->
               [m1 EXCEPT !.promises[cb.id] = resolve(@, rive)]
          [] cb.kind = "reenter" ->
               LET m2 == getInstance([m1 EXCEPT !.running = cb.id], nestedOf(cb.id))
               IN  [m2 EXCEPT !.running = m.running]

\* getInstance without the isLoading test: every call starts a load
getInstance_noGuard(m, cb) ==
    LET m1 == loadRuntime([m EXCEPT !.isLoading = TRUE])
    IN  IF m1.runtime = 0
        THEN [m1 EXCEPT !.callBackQueue = Append(@, cb)]
        ELSE callback(m1, cb, m1.runtime, "getInstance")

\* getInstance without the runtime test: every callback is queued
getInstance_alwaysQueue(m, cb) ==
    LET m1 == IF ~m.isLoading
              THEN loadRuntime([m EXCEPT !.isLoading = TRUE])
              ELSE m
    IN  [m1 EXCEPT !.callBackQueue = Append(@, cb)]

\* getInstance(callback)
getInstance(m, cb) ==
    LET m1 == IF ~m.isLoading
              THEN loadRuntime([m EXCEPT !.isLoading = TRUE])
              ELSE m
    IN  IF m1.runtime = 0
        THEN [m1 EXCEPT !.callBackQueue = Append(@, cb)]
        ELSE callback(m1, cb, m1.runtime, "getInstance")

\* awaitInstance(): new Promise((resolve) => getInstance((rive) => resolve(rive)))
awaitInstance(m, id) ==
    LET m0 == [m EXCEPT !.promises = @ @@ (id :> [state |-> "pending", value |-> 0])]
        m1 == getInstance(m0, [id |-> id, kind |-> "resolve"])
    IN  IF m1.threw
        THEN [m1 EXCEPT !.promises[id] = rejectPromise(@), !.threw = FALSE]
        ELSE m1

\* while (callBackQueue.length > 0) callBackQueue.shift()?.(runtime)
RECURSIVE drain(_)
drain(m) ==
    IF Len(m.callBackQueue) > 0 /\ ~m.threw
    THEN drain(callback([m EXCEPT !.callBackQueue = Tail(@)],
                        Head(m.callBackQueue), m.runtime, "drain"))
    ELSE m

\* the .then handler of attempt i, which resolved with handle i (every
\* initialization makes a new runtime object)
thenHandler(m, i) ==
    LET m1 == drain([m EXCEPT !.runtime = i,
                              !.attempts[i].queued =
                                  [k \in DOMAIN m.callBackQueue |-> m.callBackQueue[k].id]])
    IN  [m1 EXCEPT !.attempts[i].status = IF m1.threw THEN "thrown" ELSE "fulfilled",
                   !.threw = FALSE]

\* the test of the catch handler
shouldRetry(url) == toLowerCase(Chars(url)) # Chars(backupJsdelivrUrl(packageData))

\* a catch handler that clears isLoading when it gives up
catchHandler_resetsLoading(m, i) ==
    LET m0 == [m EXCEPT !.attempts[i].status =
                            IF @ = "thrown" THEN "caught" ELSE "rejected"]
    IN  IF shouldRetry(m.wasmURL)
        THEN loadRuntime(setWasmUrl(
                 [m0 EXCEPT !.console = Append(@, "warn"),
                            !.attempts[i].decision = "retry"],
                 backupJsdelivrUrl(packageData)))
        ELSE [m0 EXCEPT !.console = Append(@, "error"),
                        !.attempts[i].decision = "terminal",
                        !.isLoading = FALSE]

\* the .catch handler of attempt i: it runs when rc.default rejected and
\* when the .then handler threw
catchHandler(m, i) ==
    LET m0 == [m EXCEPT !.attempts[i].status =
                            IF @ = "thrown" THEN "caught" ELSE "rejected"]
    IN  IF shouldRetry(m.wasmURL)
        THEN loadRuntime(setWasmUrl(
                 [m0 EXCEPT !.console = Append(@, "warn"),
                            !.attempts[i].decision = "retry"],
                 backupJsdelivrUrl(packageData)))
        ELSE [m0 EXCEPT !.console = Append(@, "error"),
                        !.attempts[i].decision = "terminal"]

-----------------------------------------------------------------------------
(* The state machine. *)

Init ==
    /\ packageData \in PackageDatas
    /\ runtime = 0
    /\ isLoading = FALSE
    /\ callBackQueue = <<>>
    /\ wasmURL = primaryUrl(packageData)
    /\ attempts = <<>>
    /\ promises = <<>>
    /\ invoked = <<>>
    /\ console = <<>>
    /\ nextId = 1
    /\ nSets = 0
    /\ presetUrl = NoUrl

\* a caller calls getInstance with a callback of some kind; an exception the
\* callback throws goes to that caller
GetInstance(kind) ==
    /\ nextId <= MaxCalls
    /\ Commit(getInstance(Cur, [id |-> nextId, kind |-> kind]))
    /\ nextId' = nextId + 1
    /\ UNCHANGED <<packageData, nSets, presetUrl>>

\* a caller calls awaitInstance
AwaitInstance ==
    /\ nextId <= MaxCalls
    /\ Commit(awaitInstance(Cur, nextId))
    /\ nextId' = nextId + 1
    /\ UNCHANGED <<packageData, nSets, presetUrl>>

\* a caller calls setWasmUrl(url)
SetWasmUrl(url) ==
    /\ nSets < MaxSets
    /\ nSets' = nSets + 1
    /\ LET m == setWasmUrl(Cur, url)
       IN  Commit([m EXCEPT !.attempts =
                     [i \in DOMAIN @ |->
                        IF @[i].status = "pending" /\ @[i].located = NoUrl
                        THEN [@[i] EXCEPT !.touched = TRUE] ELSE @[i]]])
    /\ presetUrl' = IF attempts = <<>> THEN url ELSE presetUrl
    /\ UNCHANGED <<packageData, nextId>>

\* the runtime module asks locateFile where the WASM file is
LocateFile(i) ==
    /\ attempts[i].status = "pending"
    /\ attempts[i].located = NoUrl
    /\ attempts' = [attempts EXCEPT ![i].located = locateFile(Cur)]
    /\ UNCHANGED <<runtime, isLoading, callBackQueue, wasmURL, packageData,
                   promises, invoked, console, nextId, nSets, presetUrl>>

\* the promise of attempt i resolves and its .then handler runs
ThenHandler(i) ==
    /\ attempts[i].status = "pending"
    /\ Commit(thenHandler(Cur, i))
    /\ UNCHANGED <<packageData, nextId, nSets, presetUrl>>

\* the promise of attempt i rejects, or its .then handler threw, and its
\* .catch handler runs
CatchHandler(i) ==
    /\ attempts[i].status \in {"pending", "thrown"}
    /\ shouldRetry(wasmURL) => Len(attempts) < MaxAttempts
    /\ Commit(catchHandler(Cur, i))
    /\ UNCHANGED <<packageData, nextId, nSets, presetUrl>>

Next ==
    \/ \E kind \in CallerKinds : GetInstance(kind)
    \/ AwaitInstance
    \/ \E url \in CallerUrls(packageData) : SetWasmUrl(url)
    \/ \E i \in DOMAIN attempts : LocateFile(i)
    \/ \E i \in DOMAIN attempts : ThenHandler(i)
    \/ \E i \in DOMAIN attempts : CatchHandler(i)

Spec == Init /\ [][Next]_vars

-----------------------------------------------------------------------------
(* Vocabulary of the properties. *)

\* rc.default's promise of attempt i resolved (its .then handler has run)
Resolved(i) == attempts[i].status \in {"fulfilled", "thrown", "caught"}

\* no attempt has settled yet
NoneSettled == \A i \in DOMAIN attempts : attempts[i].status = "pending"

\* the loader gave up: the last console call is the error, and every
\* initialization attempt was rejected
Terminal ==
    /\ console # <<>>
    /\ console[Len(console)] = "error"
    /\ \A i \in DOMAIN attempts : attempts[i].status = "rejected"

\* the invocations of callback id
InvocationsOf(id) == {k \in DOMAIN invoked : invoked[k].cb = id}

\* the ids the drain loop of attempt i invoked with handle i, in order
DrainedBy(i) ==
    LET d == SelectSeq(invoked, LAMBDA e : e.by = "drain" /\ e.rive = i)
    IN  [k \in DOMAIN d |-> d[k].cb]

InQueue(id) == \E k \in DOMAIN callBackQueue : callBackQueue[k].id = id

-----------------------------------------------------------------------------
(* C1 -- single flight.  While no load attempt has settled, however many    *)
(* getInstance / awaitInstance calls were made (at least one), rc.default   *)
(* has been invoked exactly once, and with the primary URL in wasmURL       *)
(* unless a caller had set another one.                                     *)
C1_SingleFlight ==
    (nextId > 1 /\ NoneSettled) =>
        /\ Len(attempts) = 1
        /\ isLoading
        /\ presetUrl = NoUrl => attempts[1].started = primaryUrl(packageData)

\* two calls were made while the first attempt is still pending
C1_Witness ==
    /\ nextId > 2
    /\ Len(attempts) = 1
    /\ attempts[1].status = "pending"
    /\ attempts[1].started = primaryUrl(packageData)

(* C2 -- FIFO delivery, as claimed.  Once a load has succeeded with handle  *)
(* H, the callbacks that were queued when it succeeded have been invoked by *)
(* the drain in their registration order, every one of them with H.         *)
C2_FifoAllWithHandle ==
    \A i \in DOMAIN attempts : Resolved(i) => DrainedBy(i) = attempts[i].queued

(* C3 -- exactly-once delivery, as claimed.  No callback is invoked twice,  *)
(* none is invoked with an unset handle, and once loading has completed     *)
(* successfully every callback registered so far has been invoked exactly   *)
(* once, all with one shared handle.                                        *)
C3_ExactlyOnceSharedHandle ==
    /\ \A k \in DOMAIN invoked : invoked[k].rive # 0
    /\ \A id \in 1..(nextId - 1) : Cardinality(InvocationsOf(id)) <= 1
    /\ runtime # 0 =>
          /\ \A id \in 1..(nextId - 1) : Cardinality(InvocationsOf(id)) = 1
          /\ \A k \in DOMAIN invoked : invoked[k].rive = runtime

(* C4 -- post-ready immediacy.  A getInstance call (made by a caller,       *)
(* directly or through awaitInstance) in a state where runtime is set       *)
(* invokes its callback within the call with the stored handle, leaves      *)
(* callBackQueue as it was and starts no load.                              *)
C4_PostReadyImmediacy ==
    [][ (runtime # 0 /\ nextId' # nextId) =>
            /\ Len(invoked') > Len(invoked)
            /\ invoked'[Len(invoked) + 1] =
                   [cb |-> nextId, rive |-> runtime, by |-> "getInstance", inside |-> 0]
            /\ callBackQueue' = callBackQueue
            /\ attempts' = attempts
            /\ runtime' = runtime ]_vars

\* a callback was invoked synchronously by a caller's getInstance
C4_Witness ==
    \E k \in DOMAIN invoked :
        /\ invoked[k].by = "getInstance"
        /\ invoked[k].inside = 0
        /\ callBackQueue = <<>>

(* C5 -- fallback once, as claimed.  When the attempt against the primary   *)
(* URL has failed, wasmURL was switched to the fallback URL and one further *)
(* attempt was made, whose locateFile returns the fallback URL; there is    *)
(* never a third attempt.                                                   *)
C5_FallbackOnce ==
    (/\ attempts # <<>>
     /\ attempts[1].started = primaryUrl(packageData)
     /\ attempts[1].located \in {NoUrl, primaryUrl(packageData)}
     /\ attempts[1].status = "rejected") =>
        /\ Len(attempts) = 2
        /\ attempts[2].started = backupJsdelivrUrl(packageData)
        /\ attempts[2].located \in {NoUrl, backupJsdelivrUrl(packageData)}

(* C6 -- terminal silence.  After a terminal failure isLoading is true, no  *)
(* callback has been invoked and no promise is settled, and every further   *)
(* step (a getInstance, awaitInstance or setWasmUrl call) leaves the loader *)
(* terminally failed, starts no load, invokes nothing, and at most appends  *)
(* the new callback to callBackQueue.                                       *)
C6_TerminalSilence ==
    /\ [](Terminal => (isLoading /\ runtime = 0 /\ invoked = <<>>))
    /\ [][ Terminal =>
             /\ Terminal'
             /\ attempts' = attempts
             /\ invoked' = invoked
             /\ isLoading'
             /\ \/ callBackQueue' = callBackQueue
                \/ /\ Len(callBackQueue') = Len(callBackQueue) + 1
                   /\ SubSeq(callBackQueue', 1, Len(callBackQueue)) = callBackQueue
                   /\ callBackQueue'[Len(callBackQueue')].id = nextId ]_vars

\* primary and fallback both failed, callbacks wait in the queue, and a
\* caller has set another URL
C6_Witness ==
    /\ Terminal
    /\ Len(attempts) = 2
    /\ Len(callBackQueue) = 2
    /\ wasmURL = customUrl

(* C7 -- URL override.  When the last setWasmUrl call before the first load *)
(* attempt was setWasmUrl(u), and no caller has changed wasmURL between the *)
(* start of that attempt and its use of locateFile, locateFile of the first *)
(* attempt returns exactly u.                                               *)
C7_UrlOverride ==
    (/\ attempts # <<>>
     /\ presetUrl # NoUrl
     /\ attempts[1].located # NoUrl
     /\ ~attempts[1].touched) => attempts[1].located = presetUrl

\* setWasmUrl(custom), then the first load, whose locateFile was used
C7_Witness ==
    /\ attempts # <<>>
    /\ presetUrl = customUrl
    /\ attempts[1].located = customUrl

(* C8 -- awaitInstance never rejects.  A promise awaitInstance returned is  *)
(* never rejected; it is fulfilled exactly when its wrapped callback has    *)
(* been invoked, which happens at most once, and its value is the handle    *)
(* the callback received; while pending its callback waits in the queue (so *)
(* a call made with the runtime set is fulfilled within the call); after a  *)
(* terminal failure it is pending.                                          *)
C8_AwaitNeverRejects ==
    \A id \in DOMAIN promises :
        /\ promises[id].state # "rejected"
        /\ Cardinality(InvocationsOf(id)) <= 1
        /\ promises[id].state = "fulfilled" <=> InvocationsOf(id) # {}
        /\ promises[id].state = "pending" <=> InQueue(id)
        /\ \A k \in InvocationsOf(id) :
              /\ invoked[k].rive # 0
              /\ promises[id].value = invoked[k].rive
        /\ Terminal => promises[id].state = "pending"

\* one promise was fulfilled by the drain and another within its call
C8_Witness ==
    \E a, b \in DOMAIN promises :
        /\ promises[a].state = "fulfilled"
        /\ promises[b].state = "fulfilled"
        /\ \E k \in InvocationsOf(a) : invoked[k].by = "drain"
        /\ \E k \in InvocationsOf(b) : invoked[k].by = "getInstance"

(* C9 -- handle set at most once, as claimed.  At most one attempt ever     *)
(* resolves, so runtime keeps the first handle it was given, and no load    *)
(* attempt is started once runtime is set.                                  *)
C9_HandleSetOnce ==
    /\ Cardinality({i \in DOMAIN attempts : Resolved(i)}) <= 1
    /\ runtime # 0 => \A i \in DOMAIN attempts : attempts[i].status # "pending"

(* C10 -- setWasmUrl and the load in flight, as claimed.  What locateFile   *)
(* of an attempt returns is the URL the attempt was started with, and the   *)
(* attempt's failure is retried exactly when that URL passes the test of    *)
(* the catch handler.                                                       *)
C10_InFlightUnaffected ==
    \A i \in DOMAIN attempts :
        /\ attempts[i].located # NoUrl => attempts[i].located = attempts[i].started
        /\ attempts[i].decision = "retry" => shouldRetry(attempts[i].started)
        /\ attempts[i].decision = "terminal" => ~shouldRetry(attempts[i].started)

(* C11 -- delivery across the fallback retry, as claimed.  When the primary *)
(* attempt was rejected and the fallback attempt has resolved with handle   *)
(* H, every callback registered before that (before the primary failure or  *)
(* during the retry window) has been invoked exactly once with H, in        *)
(* registration order, and no load beyond the retry was started.            *)
C11_DeliveryAcrossRetry ==
    (/\ Len(attempts) >= 2
     /\ attempts[1].status = "rejected"
     /\ Resolved(2)) =>
        /\ Len(attempts) = 2
        /\ \A k \in DOMAIN attempts[2].queued :
              /\ Cardinality(InvocationsOf(attempts[2].queued[k])) = 1
              /\ \A n \in InvocationsOf(attempts[2].queued[k]) : invoked[n].rive = 2
        /\ DrainedBy(2) = attempts[2].queued

(* C12 -- diagnostics, as claimed.  There is one warning per switch to the  *)
(* fallback URL, logged before the retry attempt starts; an error is logged *)
(* only for an attempt that failed and is not retried; there is at most one *)
(* error in an execution.                                                   *)
C12_Diagnostics ==
    /\ Cardinality({k \in DOMAIN console : console[k] = "warn"})
          = Cardinality({i \in DOMAIN attempts : attempts[i].decision = "retry"})
    /\ Cardinality({k \in DOMAIN console : console[k] = "error"})
          = Cardinality({i \in DOMAIN attempts : attempts[i].decision = "terminal"})
    /\ Cardinality({k \in DOMAIN console : console[k] = "error"}) <= 1
    /\ \A i \in DOMAIN attempts :
          /\ attempts[i].decision = "retry" => i < Len(attempts)
          /\ attempts[i].decision = "terminal" => attempts[i].status = "rejected"

(* C13 -- re-entrant registration, as claimed.  A callback registered with  *)
(* getInstance from inside a callback the drain loop is invoking is not     *)
(* invoked inside the registering callback: it is invoked by the drain      *)
(* loop, after the callbacks that were already queued.                      *)
C13_ReentrantIsQueued ==
    \A k \in DOMAIN invoked :
        invoked[k].cb < 0 => (invoked[k].by = "drain" /\ invoked[k].inside = 0)

(* C13, amended -- a callback registered with getInstance from inside a     *)
(* callback that is being invoked (by the drain loop or by getInstance) is  *)
(* invoked at once, inside the registering callback and with the handle it  *)
(* received, and is never put in callBackQueue.                             *)
C13_ReentrantIsImmediate ==
    /\ \A k \in DOMAIN callBackQueue : callBackQueue[k].id > 0
    /\ \A k \in DOMAIN invoked :
          invoked[k].cb < 0 =>
              /\ k > 1
              /\ invoked[k - 1].cb = -invoked[k].cb
              /\ invoked[k].inside = invoked[k - 1].cb
              /\ invoked[k].by = "getInstance"
              /\ invoked[k].rive = invoked[k - 1].rive
              /\ invoked[k].rive # 0

\* the drain invoked a re-entering callback, its registration ran inside it,
\* and the callback queued behind it ran afterwards
C13_Witness ==
    /\ Len(invoked) = 3
    /\ invoked[1] = [cb |-> 1, rive |-> 1, by |-> "drain", inside |-> 0]
    /\ invoked[2] = [cb |-> -1, rive |-> 1, by |-> "getInstance", inside |-> 1]
    /\ invoked[3] = [cb |-> 2, rive |-> 1, by |-> "drain", inside |-> 0]

(* C14 -- a throwing callback, as claimed.  Once an attempt has resolved    *)
(* and its handle is stored, rc.default is not invoked again and the catch  *)
(* handler takes no decision for that attempt (no warning, no switch of     *)
(* wasmURL, no new load), also when a callback of the drain throws.         *)
C14_ThrowStaysOutOfFailurePath ==
    \A i \in DOMAIN attempts :
        Resolved(i) =>
            /\ Len(attempts) = i
            /\ attempts[i].decision = "none"
            /\ runtime = i

(* C15 -- retry decision, as claimed.  Whenever the catch handler decides,  *)
(* it retries exactly when the lower-cased current wasmURL differs from the *)
(* lower-cased fallback URL, whatever the package name and version are.     *)
C15_RetryIffDiffersIgnoringCase ==
    [][ \A i \in DOMAIN attempts :
          (attempts[i].decision = "none" /\ attempts'[i].decision # "none") =>
              (attempts'[i].decision = "retry" <=>
                  toLowerCase(Chars(wasmURL))
                      # toLowerCase(Chars(backupJsdelivrUrl(packageData)))) ]_vars

(* C16 -- one retry hop, as claimed.  In every execution rc.default is      *)
(* invoked at most twice.                                                   *)
C16_AtMostTwoAttempts == Len(attempts) <= 2

(* C17 -- at most one load in flight.  At most one attempt is unsettled,    *)
(* and it is the latest one; the first attempt exists only once isLoading   *)
(* is set, and every other attempt was started by the catch handler of the  *)
(* attempt before it, which had settled and chose to retry.                 *)
C17_OneInFlight ==
    /\ Cardinality({i \in DOMAIN attempts : attempts[i].status = "pending"}) <= 1
    /\ attempts # <<>> => isLoading
    /\ \A i \in DOMAIN attempts :
          i < Len(attempts) =>
              /\ attempts[i].status \in {"rejected", "caught"}
              /\ attempts[i].decision = "retry"

\* callers made two calls and the retry attempt is the one in flight
C17_Witness ==
    /\ nextId > 2
    /\ Len(attempts) = 2
    /\ attempts[2].status = "pending"
    /\ attempts[1].status = "rejected"

(* C18 -- no stranded callbacks, as claimed.  Whenever runtime is set (the  *)
(* drain loop never spans two states), callBackQueue is empty.              *)
C18_NoStrandedCallbacks == runtime # 0 => callBackQueue = <<>>

(* C19 -- frame of setWasmUrl.  A caller's setWasmUrl(u), in whatever state *)
(* it is made, sets wasmURL to one of the callers' URLs (to u itself, which *)
(* presetUrl records while no load has started) and leaves isLoading,       *)
(* runtime and callBackQueue unchanged; it starts no load, invokes no       *)
(* callback, settles no promise and logs nothing.                           *)
C19_SetWasmUrlFrame ==
    [][ nSets' # nSets =>
          /\ wasmURL' \in CallerUrls(packageData)
          /\ attempts = <<>> => wasmURL' = presetUrl'
          /\ isLoading' = isLoading
          /\ runtime' = runtime
          /\ callBackQueue' = callBackQueue
          /\ Len(attempts') = Len(attempts)
          /\ \A i \in DOMAIN attempts :
                /\ attempts'[i].status = attempts[i].status
                /\ attempts'[i].located = attempts[i].located
                /\ attempts'[i].decision = attempts[i].decision
          /\ invoked' = invoked
          /\ promises' = promises
          /\ console' = console ]_vars

\* setWasmUrl(custom) was called after the runtime was ready
C19_Witness ==
    /\ nSets = 1
    /\ runtime # 0
    /\ presetUrl = NoUrl
    /\ wasmURL = customUrl

====
